---- MODULE Spec2Model ----
(***************************************************************************)
(* Model of the HHVM debug adapter session (src/src/debugger/debugger.ts). *)
(*                                                                         *)
(* Every call of attachRequest opens a socket, stores it in this.client,   *)
(* and registers four handlers that close over three flags local to that   *)
(* call (attached, interrupted, needInterrupt) and over the call's args.   *)
(* The sockets, and the closures that belong to them, are numbered         *)
(* 1, 2, ... in the order of the attachRequest calls; this.client is the   *)
(* number of the last one.                                                 *)
(***************************************************************************)
EXTENDS Integers, Sequences, FiniteSets, TLC

(* ---- bounds ---------------------------------------------------------- *)

\* number of attachRequest calls in a run
MaxAttach == 2

\* attach commands of one closure that are unanswered
MaxPending == 2

\* write callbacks of one closure that have not run yet
MaxCallbacks == 1

Socks == 1..MaxAttach

(* ---- values ---------------------------------------------------------- *)

\* args.user / args.sandbox of an attachRequest
ArgsSet ==
  { [user |-> "alice", sandbox |-> "dev"],
    [user |-> "bob",   sandbox |-> "prod"] }

NoArgs == [user |-> "", sandbox |-> ""]

\* InterruptType values the handler tells apart, and one it does not
InterruptTypes ==
  { "SessionStarted", "SessionEnded", "RequestStarted",
    "BreakPointReached", "ExceptionThrown" }

Signals == { "SignalNone", "SignalBreak" }

\* decoded inbound commands, as far as the handler reads their fields
InInterrupt(i) == [cmdType |-> "KindOfInterrupt", interrupt |-> i]
InMachine(ok)  == [cmdType |-> "KindOfMachine", succeed |-> ok]
InBreak        == [cmdType |-> "KindOfBreak"]
InSignal(sig)  == [cmdType |-> "KindOfSignal", signal |-> sig]
InContinue     == [cmdType |-> "KindOfContinue"]

Inbound ==
  { InInterrupt(i) : i \in InterruptTypes } \cup
  { InMachine(ok) : ok \in BOOLEAN } \cup
  { InSignal(sig) : sig \in Signals } \cup
  { InBreak, InContinue }

\* the commands the session constructs
SandboxInfo(user, sandbox) == [user |-> user, sandbox |-> sandbox]

BreakPointInfo(state, bindState, interrupt) ==
  [state |-> state, bindState |-> bindState, interrupt |-> interrupt]

CmdMachine(body, sandboxes, flag) ==
  [cmdType |-> "KindOfMachine", body |-> body, sandboxes |-> sandboxes,
   flag |-> flag]

CmdBreak(body, breakpoints) ==
  [cmdType |-> "KindOfBreak", body |-> body, breakpoints |-> breakpoints]

CmdStep(body, count, flag) ==
  [cmdType |-> "KindOfStep", body |-> body, count |-> count, flag |-> flag]

CmdContinue(body, count, flag) ==
  [cmdType |-> "KindOfContinue", body |-> body, count |-> count,
   flag |-> flag]

(* ---- state ----------------------------------------------------------- *)

VARIABLES
  client,        \* this.client: number of the socket it holds, 0 before
  status,        \* per socket: unused, connecting, open, destroyed, closed
  args,          \* per closure: the args of its attachRequest
  attached,      \* per closure: let attached
  interrupted,   \* per closure: let interrupted
  needInterrupt, \* per closure: let needInterrupt
  cbPending,     \* per closure and target socket: write callbacks to run
  attachPending, \* per closure: attach commands written, not yet answered
  listening,     \* per closure: a Step command was written when attached
  written,       \* the client.write calls of the last step
  sent,          \* the sendResponse / sendEvent calls of the last step
  last,          \* the last step: its closure, that closure's protocol
                 \* state before the step, and the command it received
  request,       \* the request of the shell handled by the last step
  breakPoints,   \* this.breakPoints: source path -> breakpoints
  variableHandles, \* this.variableHandles: the values, in handle order
  wire,          \* bytes the server has written, not yet read
  sentCmds,      \* the commands the server has written, in order
  handled,       \* the commands the data handler has switched on
  chunk,         \* the data of the last data event
  uncaught,      \* the error that escaped a handler, or "none"
  visible,       \* HackCoverageChecker.visible
  cache,         \* HackCoverageChecker.cache: fileName -> diagnostics
  hhvmCoverDiag, \* the diagnostic collection: fileName -> diagnostics
  coverageStatus, \* the status bar item: shown, and the percentage
  suspended,     \* the calls at await hh_client.color, in call order
  calls,         \* calls of run and toggle made so far
  toggled,       \* calls of toggle that have completed
  step           \* the last step of the coverage checker

vars ==
  << client, status, args, attached, interrupted, needInterrupt, cbPending,
     attachPending, listening, written, sent, last, request, breakPoints,
     variableHandles, wire, sentCmds, handled, chunk, uncaught,
     visible, cache, hhvmCoverDiag, coverageStatus, suspended, calls,
     toggled, step >>

\* the coverage checker
coverage ==
  << visible, cache, hhvmCoverDiag, coverageStatus, suspended, calls,
     toggled, step >>

\* the state of the breakpoint and variable surface
shell == << breakPoints, variableHandles >>

\* the byte level of the connection
wireVars == << wire, sentCmds, handled, chunk, uncaught >>

flags == << attached, interrupted, needInterrupt >>
ghost == << attachPending, listening >>

\* the protocol state of closure s (spec section 4.4), read off the socket
\* and the flags
State(s) ==
  IF status[s] \in { "unused", "destroyed", "closed" } THEN "Disconnected"
  ELSE IF status[s] = "connecting" THEN "Connecting"
  ELSE IF ~attached[s]
       THEN IF attachPending[s] > 0 THEN "Attaching"
            ELSE "AwaitingSessionStart"
  ELSE IF listening[s] THEN "Listening"
  ELSE "Attached"

\* no command: the step was not a data event
NoCmd == [cmdType |-> "None"]

Before(s, cmd) == [sock |-> s, pre |-> State(s), got |-> cmd]

\* a request of the shell with its arguments; NoRequest when the step is
\* not a request
Request(command, arguments) == [command |-> command, arguments |-> arguments]
NoRequest == Request("none", << >>)

\* what hh_client.color resolves to: nothing, or the coloured regions
NoColor == [ok |-> FALSE, regions |-> << >>]
Colored(regions) == [ok |-> TRUE, regions |-> regions]

\* a step of the coverage checker: the call it belongs to, whether the call
\* has completed with it, and the answer of hh_client.color it resumed with
Step(call, fileName, completed, colorResult) ==
  [call |-> call, fileName |-> fileName, completed |-> completed,
   color |-> colorResult]

NoStep == Step("none", "", FALSE, NoColor)

NoSocket == [sock |-> 0, pre |-> "Disconnected", got |-> NoCmd]

Init ==
  /\ client = 0
  /\ status = [s \in Socks |-> "unused"]
  /\ args = [s \in Socks |-> NoArgs]
  /\ attached = [s \in Socks |-> FALSE]
  /\ interrupted = [s \in Socks |-> FALSE]
  /\ needInterrupt = [s \in Socks |-> FALSE]
  /\ cbPending = [s \in Socks |-> [t \in Socks |-> 0]]
  /\ attachPending = [s \in Socks |-> 0]
  /\ listening = [s \in Socks |-> FALSE]
  /\ written = << >>
  /\ sent = << >>
  /\ last = NoSocket
  /\ request = NoRequest
  /\ breakPoints = << >>
  /\ variableHandles = << >>
  /\ wire = << >>
  /\ sentCmds = << >>
  /\ handled = << >>
  /\ chunk = << >>
  /\ uncaught = "none"
  /\ visible = FALSE
  /\ cache = << >>
  /\ hhvmCoverDiag = << >>
  /\ coverageStatus = [shown |-> FALSE, text |-> << >>]
  /\ suspended = << >>
  /\ calls = 0
  /\ toggled = 0
  /\ step = NoStep

(* ---- attachRequest ---------------------------------------------------- *)

\* net.connect, the three let flags, and the four client.on registrations.
\* No response is sent.
AttachRequest(a) ==
  /\ client < MaxAttach
  /\ client' = client + 1
  /\ status' = [status EXCEPT ![client + 1] = "connecting"]
  /\ args' = [args EXCEPT ![client + 1] = a]
  /\ attached' = [attached EXCEPT ![client + 1] = FALSE]
  /\ interrupted' = [interrupted EXCEPT ![client + 1] = FALSE]
  /\ needInterrupt' = [needInterrupt EXCEPT ![client + 1] = FALSE]
  /\ written' = << >>
  /\ sent' = << >>
  /\ last' = Before(client + 1, NoCmd)
  /\ request' = Request("attach", a)
  /\ UNCHANGED << shell, wireVars, coverage >>
  /\ UNCHANGED << cbPending, attachPending, listening >>

\* the connect listener of net.connect: logs
Connect(s) ==
  /\ status[s] = "connecting"
  /\ status' = [status EXCEPT ![s] = "open"]
  /\ written' = << >>
  /\ sent' = << >>
  /\ last' = Before(s, NoCmd)
  /\ request' = NoRequest
  /\ UNCHANGED << shell, wireVars, coverage >>
  /\ UNCHANGED << client, args, flags, cbPending, ghost >>

(* ---- the data handler ------------------------------------------------ *)

\* what one run of the data handler of closure s does: the flags after it,
\* the commands passed to this.client.write in order, and how many of these
\* writes carry the callback that clears interrupted
NoEffect(s) ==
  [attached |-> attached[s], interrupted |-> interrupted[s],
   needInterrupt |-> needInterrupt[s], writes |-> << >>, cbs |-> 0]

\* OnSessionStarted with the arguments of SandboxInfo exchanged
OnSessionStarted_SwappedArgs(s, e) ==
  IF ~e.attached
    THEN [e EXCEPT
            !.writes = Append(@,
               CmdMachine("attach",
                          << SandboxInfo(args[s].sandbox, args[s].user) >>,
                          FALSE)),
            !.cbs = @ + 1]
    ELSE e

\* case InterruptType.SessionStarted; e is the effect so far
OnSessionStarted(s, e) ==
  IF ~e.attached
    THEN [e EXCEPT
            !.writes = Append(@,
               CmdMachine("attach",
                          << SandboxInfo(args[s].user, args[s].sandbox) >>,
                          FALSE)),
            !.cbs = @ + 1]
    ELSE e

\* case InterruptType.RequestStarted
OnRequestStarted(s, e) ==
  [e EXCEPT !.writes = Append(@, CmdStep("", 1, FALSE))]

\* OnBreakPointReached without the write
OnBreakPointReached_NoWrite(s, e) == e

\* case InterruptType.BreakPointReached
OnBreakPointReached(s, e) ==
  [e EXCEPT !.writes = Append(@, CmdStep("", 1, FALSE))]

\* case CommandType.KindOfInterrupt
OnInterrupt(s, cmd) ==
  LET e == [NoEffect(s) EXCEPT !.interrupted = TRUE]
  IN  CASE cmd.interrupt = "SessionStarted" -> OnSessionStarted(s, e)
        [] cmd.interrupt = "SessionEnded" -> e
        [] cmd.interrupt = "RequestStarted" -> OnRequestStarted(s, e)
        [] cmd.interrupt = "BreakPointReached" -> OnBreakPointReached(s, e)
        [] OTHER -> e

\* OnMachine without the test of machineCmd.succeed
OnMachine_IgnoresSucceed(s, cmd) ==
  [NoEffect(s) EXCEPT
     !.attached = TRUE,
     !.writes = Append(@,
        CmdBreak("update",
                 << BreakPointInfo("Always", "KnownToBeValid",
                                   "RequestStarted") >>)),
     !.interrupted = FALSE]

\* case CommandType.KindOfMachine
OnMachine(s, cmd) ==
  IF cmd.succeed
    THEN [NoEffect(s) EXCEPT
            !.attached = TRUE,
            !.writes = Append(@,
               CmdBreak("update",
                        << BreakPointInfo("Always", "KnownToBeValid",
                                          "RequestStarted") >>)),
            !.interrupted = FALSE]
    ELSE NoEffect(s)

\* OnBreak that builds a CmdStep where the code builds a CmdContinue
OnBreak_SendsStep(s, cmd) ==
  [NoEffect(s) EXCEPT !.writes = Append(@, CmdStep("", 1, FALSE))]

\* case CommandType.KindOfBreak
OnBreak(s, cmd) ==
  [NoEffect(s) EXCEPT !.writes = Append(@, CmdContinue("", 1, FALSE))]

\* case CommandType.KindOfSignal: the received command is sent back,
\* with its signal rewritten when needInterrupt is set
OnSignal(s, cmd) ==
  IF cmd.signal = "SignalNone"
    THEN IF needInterrupt[s]
           THEN [NoEffect(s) EXCEPT
                   !.needInterrupt = FALSE,
                   !.writes = Append(@, [cmd EXCEPT !.signal = "SignalBreak"])]
           ELSE [NoEffect(s) EXCEPT !.writes = Append(@, cmd)]
    ELSE NoEffect(s)

\* Handle without the break that ends case KindOfMachine: the case falls
\* through into case KindOfBreak
Handle_MachineFallsThrough(s, cmd) ==
  CASE cmd.cmdType = "KindOfInterrupt" -> OnInterrupt(s, cmd)
    [] cmd.cmdType = "KindOfMachine" ->
         [OnMachine(s, cmd) EXCEPT
            !.writes = Append(@, CmdContinue("", 1, FALSE))]
    [] cmd.cmdType = "KindOfBreak" -> OnBreak(s, cmd)
    [] cmd.cmdType = "KindOfSignal" -> OnSignal(s, cmd)
    [] OTHER -> NoEffect(s)

\* switch (cmd.cmdType)
Handle(s, cmd) ==
  CASE cmd.cmdType = "KindOfInterrupt" -> OnInterrupt(s, cmd)
    [] cmd.cmdType = "KindOfMachine" -> OnMachine(s, cmd)
    [] cmd.cmdType = "KindOfBreak" -> OnBreak(s, cmd)
    [] cmd.cmdType = "KindOfSignal" -> OnSignal(s, cmd)
    [] OTHER -> NoEffect(s)

IsAttachCmd(c) == c.cmdType = "KindOfMachine" /\ c.body = "attach"

IsStepCmd(c) == c.cmdType = "KindOfStep"

\* how many of the written commands are attach commands
AttachCount(writes) ==
  Cardinality({ i \in 1..Len(writes) : IsAttachCmd(writes[i]) })

\* how many of the written commands are Step commands
StepCount(writes) ==
  Cardinality({ i \in 1..Len(writes) : IsStepCmd(writes[i]) })

CbTotal(s) ==
  LET RECURSIVE Sum(_)
      Sum(t) == IF t = 0 THEN 0 ELSE cbPending[s][t] + Sum(t - 1)
  IN  Sum(MaxAttach)

\* this.client.on('data', ...) of closure s, with cmd the command that
\* CommandFactory.create returns for the data
Data(s, cmd) ==
  LET e == Handle(s, cmd)
      answered == IF cmd.cmdType = "KindOfMachine" /\ attachPending[s] > 0
                    THEN 1 ELSE 0
      pending == attachPending[s] - answered + AttachCount(e.writes)
  IN  /\ status[s] = "open"
      /\ pending <= MaxPending
      /\ CbTotal(s) + e.cbs <= MaxCallbacks
      /\ attached' = [attached EXCEPT ![s] = e.attached]
      /\ interrupted' = [interrupted EXCEPT ![s] = e.interrupted]
      /\ needInterrupt' = [needInterrupt EXCEPT ![s] = e.needInterrupt]
      /\ cbPending' = [cbPending EXCEPT ![s][client] = @ + e.cbs]
      /\ attachPending' = [attachPending EXCEPT ![s] = pending]
      /\ listening' =
           [listening EXCEPT
              ![s] = @ \/ (attached[s] /\ StepCount(e.writes) > 0)]
      /\ written' = [i \in 1..Len(e.writes) |->
                       [to |-> client, cmd |-> e.writes[i]]]
      /\ sent' = << >>
      /\ last' = Before(s, cmd)
      /\ request' = NoRequest
      /\ UNCHANGED << shell, wireVars, coverage >>
      /\ UNCHANGED << client, status, args >>

\* the callback of the write of the attach command: interrupted = false.
\* It runs once the write to socket t has been flushed or has failed.
WriteCallback(s, t) ==
  /\ cbPending[s][t] > 0
  /\ status[t] # "connecting"
  /\ cbPending' = [cbPending EXCEPT ![s][t] = @ - 1]
  /\ interrupted' = [interrupted EXCEPT ![s] = FALSE]
  /\ written' = << >>
  /\ sent' = << >>
  /\ last' = Before(s, NoCmd)
  /\ request' = NoRequest
  /\ UNCHANGED << shell, wireVars, coverage >>
  /\ UNCHANGED << client, status, args, attached, needInterrupt, ghost >>

(* ---- close, timeout, error -------------------------------------------- *)

\* socket.destroy()
Destroyed(st) == IF st \in { "connecting", "open" } THEN "destroyed" ELSE st

\* this.client.on('close', ...): logs.  The socket was destroyed, or the
\* peer has closed the connection.
Close(s) ==
  /\ status[s] \in { "open", "destroyed" }
  /\ status' = [status EXCEPT ![s] = "closed"]
  /\ written' = << >>
  /\ sent' = << >>
  /\ last' = Before(s, NoCmd)
  /\ request' = NoRequest
  /\ UNCHANGED << shell, wireVars, coverage >>
  /\ UNCHANGED << client, args, flags, cbPending, ghost >>

\* this.client.on('timeout', ...): logs and destroys this.client, which is
\* the socket of the last attachRequest, not always the one that timed out
Timeout(s) ==
  /\ status[s] \in { "connecting", "open" }
  /\ status' = [status EXCEPT ![client] = Destroyed(@)]
  /\ written' = << >>
  /\ sent' = << >>
  /\ last' = Before(s, NoCmd)
  /\ request' = NoRequest
  /\ UNCHANGED << shell, wireVars, coverage >>
  /\ UNCHANGED << client, args, flags, cbPending, ghost >>

\* this.client.on('error', ...): logs.  The socket that reports an error
\* is destroyed by the runtime, and its close event follows.
Error(s) ==
  /\ status[s] \in { "connecting", "open" }
  /\ status' = [status EXCEPT ![s] = Destroyed(@)]
  /\ written' = << >>
  /\ sent' = << >>
  /\ last' = Before(s, NoCmd)
  /\ request' = NoRequest
  /\ UNCHANGED << shell, wireVars, coverage >>
  /\ UNCHANGED << client, args, flags, cbPending, ghost >>

(* ---- requests of the shell --------------------------------------------- *)

Response(command) == [type |-> "response", command |-> command]
Event(event) == [type |-> "event", event |-> event]

\* HhvmDebugSession does not override pauseRequest: the request is
\* answered by the base class and touches no flag of any closure
PauseRequest ==
  /\ written' = << >>
  /\ sent' = << Response("pause") >>
  /\ last' = NoSocket
  /\ request' = Request("pause", NoArgs)
  /\ UNCHANGED << shell, wireVars, coverage >>
  /\ UNCHANGED << client, status, args, flags, cbPending, ghost >>

Next ==
  \/ \E a \in ArgsSet : AttachRequest(a)
  \/ \E s \in Socks : Connect(s)
  \/ \E s \in Socks, cmd \in Inbound : Data(s, cmd)
  \/ \E s, t \in Socks : WriteCallback(s, t)
  \/ \E s \in Socks : Error(s)
  \/ \E s \in Socks : Close(s)
  \/ \E s \in Socks : Timeout(s)
  \/ PauseRequest

Spec == Init /\ [][Next]_vars

(* ---- breakpoints, threads, frames, variables, stepping ---------------- *)

MaxBps == 2       \* breakpoints in one setBreakpoints request
MaxLine == 2      \* lines of a source file
MaxHandles == 4   \* handles created in variableHandles

Paths == { "a.php", "b.php" }
Lines == 1..MaxLine
Frames == 0..1

\* args.breakpoints: SourceBreakpoint[]
SourceBreakpoints ==
  UNION { [1..n -> [line : Lines]] : n \in 0..MaxBps }

ResponseWith(command, body) ==
  [type |-> "response", command |-> command, success |-> TRUE, body |-> body]

\* the response the base class sends when a request handler throws
ErrorResponse(command) ==
  [type |-> "response", command |-> command, success |-> FALSE]

StoppedEvent(reason, threadId) ==
  [type |-> "event", event |-> "stopped",
   body |-> [reason |-> reason, threadId |-> threadId]]

\* the steps of this section leave the connection alone
ShellStep(req) ==
  /\ request' = req
  /\ written' = << >>
  /\ last' = NoSocket
  /\ UNCHANGED << client, status, args, flags, cbPending, ghost, wireVars,
                  coverage >>

InitializeRequest ==
  /\ sent' = << Event("initialized"),
                ResponseWith("initialize",
                  [supportsConfigurationDoneRequest |-> TRUE,
                   supportsEvaluateForHovers |-> TRUE,
                   supportsStepBack |-> FALSE]) >>
  /\ ShellStep(Request("initialize", NoArgs))
  /\ UNCHANGED shell

LaunchRequest ==
  /\ sent' = << StoppedEvent("entry", 0) >>
  /\ ShellStep(Request("launch", NoArgs))
  /\ UNCHANGED shell

\* Map.set
MapSet(map, key, value) ==
  [k \in DOMAIN map \cup { key } |-> IF k = key THEN value ELSE map[k]]

\* const breakpoints: Breakpoint[] = []; the loop that would fill it from
\* clientLines is commented out
VerifiedBreakpoints(clientLines) == << >>

\* readable: whether readFileSync(path) returns; when it throws, the
\* handler is left before the table is touched
SetBreakPointsRequest(path, clientLines, readable) ==
  /\ IF readable
       THEN LET breakpoints == VerifiedBreakpoints(clientLines) IN
            /\ breakPoints' = MapSet(breakPoints, path, breakpoints)
            /\ sent' = << ResponseWith("setBreakpoints",
                                       [breakpoints |-> breakpoints]) >>
       ELSE /\ breakPoints' = breakPoints
            /\ sent' = << ErrorResponse("setBreakpoints") >>
  /\ ShellStep(Request("setBreakpoints",
                       [path |-> path, breakpoints |-> clientLines]))
  /\ UNCHANGED variableHandles

ThreadsRequest ==
  /\ sent' = << Response("threads") >>
  /\ ShellStep(Request("threads", NoArgs))
  /\ UNCHANGED shell

StackTraceRequest ==
  /\ sent' = << Response("stackTrace") >>
  /\ ShellStep(Request("stackTrace", NoArgs))
  /\ UNCHANGED shell

\* Handles.create: the handle of a value is its position in variableHandles
Create(handles, value) == Append(handles, value)

\* Handles.get: the value of the handle, << >> for undefined
Get(handles, handle) ==
  IF handle \in 1..Len(handles) THEN << handles[handle] >> ELSE << >>

\* 'local_' + frameReference
Name(prefix, frameReference) == << prefix, frameReference >>

Scope(name, variablesReference, expensive) ==
  [name |-> name, variablesReference |-> variablesReference,
   expensive |-> expensive]

ScopesRequest(frameId) ==
  /\ Len(variableHandles) + 3 <= MaxHandles
  /\ LET h1 == Create(variableHandles, Name("local_", << frameId >>))
         h2 == Create(h1, Name("closure_", << frameId >>))
         h3 == Create(h2, Name("global_", << frameId >>))
     IN /\ variableHandles' = h3
        /\ sent' = << ResponseWith("scopes",
                        [scopes |-> << Scope("Local", Len(h1), FALSE),
                                       Scope("Closure", Len(h2), FALSE),
                                       Scope("Global", Len(h3), TRUE) >>]) >>
  /\ ShellStep(Request("scopes", [frameId |-> frameId]))
  /\ UNCHANGED breakPoints

Variable(id, suffix, type, value, variablesReference) ==
  [name |-> << id, suffix >>, type |-> type, value |-> value,
   variablesReference |-> variablesReference]

VariablesRequest(variablesReference) ==
  /\ LET id == Get(variableHandles, variablesReference) IN
     IF id # << >>
       THEN /\ Len(variableHandles) + 1 <= MaxHandles
            /\ variableHandles' =
                 Create(variableHandles, Name("object_", << >>))
            /\ sent' = << ResponseWith("variables",
                 [variables |->
                    << Variable(id[1], "_i", "integer", "123", 0),
                       Variable(id[1], "_f", "float", "3.14", 0),
                       Variable(id[1], "_s", "string", "hello world", 0),
                       Variable(id[1], "_o", "object", "Object",
                                Len(variableHandles) + 1) >>]) >>
       ELSE /\ variableHandles' = variableHandles
            /\ sent' = << ResponseWith("variables", [variables |-> << >>]) >>
  /\ ShellStep(Request("variables",
                       [variablesReference |-> variablesReference]))
  /\ UNCHANGED breakPoints

ContinueRequest ==
  /\ sent' = << Response("continue"), Event("terminated") >>
  /\ ShellStep(Request("continue", NoArgs))
  /\ UNCHANGED shell

\* the body is commented out
ReverseContinueRequest ==
  /\ sent' = << >>
  /\ ShellStep(Request("reverseContinue", NoArgs))
  /\ UNCHANGED shell

NextRequest ==
  /\ sent' = << Response("next"), Event("terminated") >>
  /\ ShellStep(Request("next", NoArgs))
  /\ UNCHANGED shell

\* the body is commented out
StepBackRequest ==
  /\ sent' = << >>
  /\ ShellStep(Request("stepBack", NoArgs))
  /\ UNCHANGED shell

Contexts == { "hover", "repl" }
Expressions == { "$x" }

EvaluateRequest(context, expression) ==
  /\ sent' = << ResponseWith("evaluate",
                  [result |-> << "evaluate(context: '", context, "', '",
                                 expression, "')" >>,
                   variablesReference |-> 0]) >>
  /\ ShellStep(Request("evaluate",
                       [context |-> context, expression |-> expression]))
  /\ UNCHANGED shell

\* the requests the shell dispatches to HhvmDebugSession, and the connect
\* event of the sockets that attachRequest opens
NextShell ==
  \/ InitializeRequest
  \/ \E a \in ArgsSet : AttachRequest(a)
  \/ \E s \in Socks : Connect(s)
  \/ LaunchRequest
  \/ \E path \in Paths, clientLines \in SourceBreakpoints,
        readable \in BOOLEAN :
       SetBreakPointsRequest(path, clientLines, readable)
  \/ ThreadsRequest
  \/ StackTraceRequest
  \/ \E frameId \in Frames : ScopesRequest(frameId)
  \/ \E ref \in 0..MaxHandles : VariablesRequest(ref)
  \/ ContinueRequest
  \/ ReverseContinueRequest
  \/ NextRequest
  \/ StepBackRequest
  \/ \E context \in Contexts, expression \in Expressions :
       EvaluateRequest(context, expression)
  \/ PauseRequest

SpecShell == Init /\ [][NextShell]_vars

(* ---- the byte level of the data handler -------------------------------- *)
(* DebuggerBufferWriter, DebuggerBufferReader, the send and recv of the    *)
(* commands and CommandFactory.create, as section 4.1 to 4.3 and 6 of the  *)
(* specification describe them: a record is a type tag of one byte and the *)
(* payload of its variant; texts and lists are length-prefixed; a read     *)
(* past the end of the data or of a value outside its type fails with      *)
(* CodecError, an unrecognized tag with UnknownCommandError.  A byte is an *)
(* integer; the bytes of a text stand as one byte, its number in Texts.    *)

\* records the server writes in a run
MaxSend == 2

CommandTypes ==
  << "KindOfBreak", "KindOfContinue", "KindOfInterrupt", "KindOfMachine",
     "KindOfSignal", "KindOfStep" >>

InterruptCodes ==
  << "SessionStarted", "SessionEnded", "RequestStarted",
     "BreakPointReached", "ExceptionThrown" >>

SignalCodes == << "SignalNone", "SignalBreak" >>
BreakPointStates == << "Always", "Once", "Disabled" >>
BindStates == << "KnownToBeValid", "KnownToBeInvalid", "Unknown" >>
Texts == << "attach", "update", "alice", "dev" >>

\* the byte of a value of an enumeration
Code(names, v) == CHOOSE i \in 1..Len(names) : names[i] = v

\* a tag outside CommandType
UnknownTag == Len(CommandTypes) + 1

(* DebuggerBufferWriter *)

WriteInt8(n) == << n >>
WriteBool(b) == << IF b THEN 1 ELSE 0 >>
WriteString(s) == IF s = "" THEN << 0 >> ELSE << 1, Code(Texts, s) >>

WriteSandboxInfo(sb) == WriteString(sb.user) \o WriteString(sb.sandbox)

WriteBreakPointInfo(bp) ==
  << Code(BreakPointStates, bp.state), Code(BindStates, bp.bindState),
     Code(InterruptCodes, bp.interrupt) >>

RECURSIVE WriteSandboxes(_)
WriteSandboxes(l) ==
  IF l = << >> THEN << >>
  ELSE WriteSandboxInfo(Head(l)) \o WriteSandboxes(Tail(l))

RECURSIVE WriteBreakPoints(_)
WriteBreakPoints(l) ==
  IF l = << >> THEN << >>
  ELSE WriteBreakPointInfo(Head(l)) \o WriteBreakPoints(Tail(l))

\* cmd.send(writer): the record of a command
Encode(cmd) ==
  WriteInt8(Code(CommandTypes, cmd.cmdType)) \o
  CASE cmd.cmdType = "KindOfInterrupt" ->
         WriteInt8(Code(InterruptCodes, cmd.interrupt))
    [] cmd.cmdType = "KindOfSignal" ->
         WriteInt8(Code(SignalCodes, cmd.signal))
    [] cmd.cmdType = "KindOfMachine" ->
         WriteString(cmd.body) \o WriteInt8(Len(cmd.sandboxes))
           \o WriteSandboxes(cmd.sandboxes) \o WriteBool(cmd.flag)
    [] cmd.cmdType = "KindOfBreak" ->
         WriteString(cmd.body) \o WriteInt8(Len(cmd.breakpoints))
           \o WriteBreakPoints(cmd.breakpoints)
    [] OTHER ->
         WriteString(cmd.body) \o WriteInt8(cmd.count) \o WriteBool(cmd.flag)

(* DebuggerBufferReader: a read at pos gives the value and the position    *)
(* after it, or fails                                                      *)

Fail == [ok |-> FALSE]
Value(v, pos) == [ok |-> TRUE, val |-> v, pos |-> pos]

ReadInt8(data, pos) ==
  IF pos <= Len(data) THEN Value(data[pos], pos + 1) ELSE Fail

ReadBool(data, pos) ==
  IF pos <= Len(data) /\ data[pos] \in { 0, 1 }
    THEN Value(data[pos] = 1, pos + 1)
    ELSE Fail

ReadEnum(names, data, pos) ==
  IF pos <= Len(data) /\ data[pos] \in 1..Len(names)
    THEN Value(names[data[pos]], pos + 1)
    ELSE Fail

ReadString(data, pos) ==
  IF pos > Len(data) THEN Fail
  ELSE IF data[pos] = 0 THEN Value("", pos + 1)
  ELSE IF data[pos] = 1 /\ pos + 1 <= Len(data)
            /\ data[pos + 1] \in 1..Len(Texts)
         THEN Value(Texts[data[pos + 1]], pos + 2)
  ELSE Fail

ReadSandboxInfo(data, pos) ==
  LET user == ReadString(data, pos) IN
  IF ~user.ok THEN Fail
  ELSE LET sandbox == ReadString(data, user.pos) IN
       IF ~sandbox.ok THEN Fail
       ELSE Value(SandboxInfo(user.val, sandbox.val), sandbox.pos)

ReadBreakPointInfo(data, pos) ==
  LET state == ReadEnum(BreakPointStates, data, pos) IN
  IF ~state.ok THEN Fail
  ELSE LET bindState == ReadEnum(BindStates, data, state.pos) IN
       IF ~bindState.ok THEN Fail
       ELSE LET interrupt == ReadEnum(InterruptCodes, data, bindState.pos) IN
            IF ~interrupt.ok THEN Fail
            ELSE Value(BreakPointInfo(state.val, bindState.val,
                                      interrupt.val), interrupt.pos)

RECURSIVE ReadSandboxes(_, _, _)
ReadSandboxes(data, pos, n) ==
  IF n = 0 THEN Value(<< >>, pos)
  ELSE LET first == ReadSandboxInfo(data, pos) IN
       IF ~first.ok THEN Fail
       ELSE LET rest == ReadSandboxes(data, first.pos, n - 1) IN
            IF ~rest.ok THEN Fail
            ELSE Value(<< first.val >> \o rest.val, rest.pos)

RECURSIVE ReadBreakPoints(_, _, _)
ReadBreakPoints(data, pos, n) ==
  IF n = 0 THEN Value(<< >>, pos)
  ELSE LET first == ReadBreakPointInfo(data, pos) IN
       IF ~first.ok THEN Fail
       ELSE LET rest == ReadBreakPoints(data, first.pos, n - 1) IN
            IF ~rest.ok THEN Fail
            ELSE Value(<< first.val >> \o rest.val, rest.pos)

(* recv of the variants: the command read from the payload at pos *)

RecvInterrupt(data, pos) ==
  LET interrupt == ReadEnum(InterruptCodes, data, pos) IN
  IF ~interrupt.ok THEN Fail
  ELSE Value(InInterrupt(interrupt.val), interrupt.pos)

RecvSignal(data, pos) ==
  LET signal == ReadEnum(SignalCodes, data, pos) IN
  IF ~signal.ok THEN Fail ELSE Value(InSignal(signal.val), signal.pos)

RecvMachine(data, pos) ==
  LET body == ReadString(data, pos) IN
  IF ~body.ok THEN Fail
  ELSE LET n == ReadInt8(data, body.pos) IN
       IF ~n.ok THEN Fail
       ELSE LET sandboxes == ReadSandboxes(data, n.pos, n.val) IN
            IF ~sandboxes.ok THEN Fail
            ELSE LET flag == ReadBool(data, sandboxes.pos) IN
                 IF ~flag.ok THEN Fail
                 ELSE Value(CmdMachine(body.val, sandboxes.val, flag.val),
                            flag.pos)

RecvBreak(data, pos) ==
  LET body == ReadString(data, pos) IN
  IF ~body.ok THEN Fail
  ELSE LET n == ReadInt8(data, body.pos) IN
       IF ~n.ok THEN Fail
       ELSE LET breakpoints == ReadBreakPoints(data, n.pos, n.val) IN
            IF ~breakpoints.ok THEN Fail
            ELSE Value(CmdBreak(body.val, breakpoints.val), breakpoints.pos)

\* Continue and Step: a text, a count and a flag
RecvFlow(cmdType, data, pos) ==
  LET body == ReadString(data, pos) IN
  IF ~body.ok THEN Fail
  ELSE LET count == ReadInt8(data, body.pos) IN
       IF ~count.ok THEN Fail
       ELSE LET flag == ReadBool(data, count.pos) IN
            IF ~flag.ok THEN Fail
            ELSE Value([cmdType |-> cmdType, body |-> body.val,
                        count |-> count.val, flag |-> flag.val], flag.pos)

\* the outcome of new DebuggerBufferReader(data) and CommandFactory.create:
\* a command, or the error thrown
Thrown(error) == [error |-> error, cmd |-> NoCmd]
Created(cmd) == [error |-> "none", cmd |-> cmd]

CommandFactoryCreate(data) ==
  LET tag == ReadEnum(CommandTypes, data, 1) IN
  IF data = << >> THEN Thrown("CodecError")
  ELSE IF ~tag.ok THEN Thrown("UnknownCommandError")
  ELSE LET r == CASE tag.val = "KindOfInterrupt" -> RecvInterrupt(data, 2)
                  [] tag.val = "KindOfSignal" -> RecvSignal(data, 2)
                  [] tag.val = "KindOfMachine" -> RecvMachine(data, 2)
                  [] tag.val = "KindOfBreak" -> RecvBreak(data, 2)
                  [] OTHER -> RecvFlow(tag.val, data, 2)
       IN IF r.ok THEN Created(r.val) ELSE Thrown("CodecError")

\* the commands the server writes
WireCmds ==
  { InInterrupt("SessionStarted"), InInterrupt("RequestStarted"),
    InSignal("SignalNone"),
    CmdMachine("attach", << SandboxInfo("alice", "dev") >>, TRUE),
    CmdMachine("attach", << >>, FALSE),
    CmdBreak("update",
             << BreakPointInfo("Always", "KnownToBeValid",
                               "RequestStarted") >>),
    CmdContinue("", 1, FALSE), CmdStep("", 1, FALSE) }

\* what stands in sentCmds for a record with an unrecognized tag
Unrecognized == [cmdType |-> "Unrecognized"]

\* the steps of this section leave the session and the shell alone
WireStep ==
  UNCHANGED << client, status, args, flags, cbPending, ghost, written,
               sent, last, request, shell, coverage >>

\* the server writes the record of cmd
Send(cmd) ==
  /\ uncaught = "none"
  /\ Len(sentCmds) < MaxSend
  /\ wire' = wire \o Encode(cmd)
  /\ sentCmds' = Append(sentCmds, cmd)
  /\ UNCHANGED << handled, chunk, uncaught >>
  /\ WireStep

\* the server writes a record of a kind the client does not know
SendUnrecognized ==
  /\ uncaught = "none"
  /\ Len(sentCmds) < MaxSend
  /\ wire' = wire \o WriteInt8(UnknownTag)
  /\ sentCmds' = Append(sentCmds, Unrecognized)
  /\ UNCHANGED << handled, chunk, uncaught >>
  /\ WireStep

\* Deliver with the command left out of the switch
Deliver_DropsCommand(n) ==
  /\ uncaught = "none"
  /\ n \in 1..Len(wire)
  /\ chunk' = SubSeq(wire, 1, n)
  /\ wire' = SubSeq(wire, n + 1, Len(wire))
  /\ LET r == CommandFactoryCreate(chunk') IN
     /\ handled' = handled
     /\ uncaught' = r.error
  /\ UNCHANGED sentCmds
  /\ WireStep

\* one data event with the next n bytes: the handler builds a reader over
\* this data alone and has the factory create one command from it, which
\* the switch then handles; nothing catches what the two throw, and
\* whatever follows the first record in the data is never read
Deliver(n) ==
  /\ uncaught = "none"
  /\ n \in 1..Len(wire)
  /\ chunk' = SubSeq(wire, 1, n)
  /\ wire' = SubSeq(wire, n + 1, Len(wire))
  /\ LET r == CommandFactoryCreate(chunk') IN
     /\ handled' = IF r.error = "none" THEN Append(handled, r.cmd)
                   ELSE handled
     /\ uncaught' = r.error
  /\ UNCHANGED sentCmds
  /\ WireStep

\* the lengths of the records of WireCmds, and the most bytes there can be
\* to read
RecordLengths == { Len(Encode(cmd)) : cmd \in WireCmds }
MaxChunk ==
  MaxSend * (CHOOSE m \in RecordLengths : \A k \in RecordLengths : k <= m)

NextWire ==
  \/ \E cmd \in WireCmds : Send(cmd)
  \/ SendUnrecognized
  \/ \E n \in 1..MaxChunk : Deliver(n)

SpecWire == Init /\ [][NextWire]_vars

(* ---- HackCoverageChecker (src/unnamed/part_001) ------------------------ *)
(* run and toggle are async functions.  A call runs until it returns or    *)
(* reaches await hh_client.color, where it is suspended until the colour   *)
(* query has an answer; what runs between two such points is one step.     *)
(* toggle awaits run: when run ends, by a return or after the answer, the  *)
(* rest of toggle follows before any other call can start.                 *)

\* calls of run and toggle in a run
MaxCalls == 3

\* document.fileName and document.languageId
Documents ==
  { [fileName |-> "a.php", languageId |-> "hack"],
    [fileName |-> "b.php", languageId |-> "hack"],
    [fileName |-> "c.js", languageId |-> "javascript"] }

\* region.text: a sequence of characters
Region(color, text) == [color |-> color, text |-> text]

\* the lengths of the strings of text.split('\n')
RECURSIVE SplitWidths(_)
SplitWidths(text) ==
  IF text = << >> THEN << 0 >>
  ELSE LET rest == SplitWidths(Tail(text)) IN
       IF Head(text) = "\n" THEN << 0 >> \o rest
       ELSE << Head(rest) + 1 >> \o Tail(rest)

\* const startColumn = 1
startColumn == 1

\* function addMessage(width); st holds line, column and unfilteredResults
addMessage(st, regionType, width) ==
  IF width > 0
    THEN LET n == Len(st.results)
             endColumn == st.column + width - 1
         IN IF /\ n > 0
               /\ st.results[n].regionType = regionType
               /\ st.results[n].line = st.line
               /\ st.results[n].end = st.column - 1
              THEN [st EXCEPT !.results[n].end = endColumn]
              ELSE [st EXCEPT !.results =
                      Append(@, [regionType |-> regionType,
                                 line |-> st.line,
                                 start |-> st.column,
                                 end |-> endColumn])]
    ELSE st

\* lines.forEach and the last string, for the strings of one region
RECURSIVE AddStrings(_, _, _)
AddStrings(st, regionType, widths) ==
  IF Len(widths) = 1
    THEN [addMessage(st, regionType, widths[1])
            EXCEPT !.column = @ + widths[1]]
    ELSE AddStrings([addMessage(st, regionType, Head(widths))
                       EXCEPT !.line = @ + 1, !.column = startColumn],
                    regionType, Tail(widths))

\* regions.forEach
RECURSIVE AddRegions(_, _)
AddRegions(st, regions) ==
  IF regions = << >> THEN st
  ELSE AddRegions(AddStrings(st, Head(regions).color,
                             SplitWidths(Head(regions).text)),
                  Tail(regions))

\* unfilteredResults.reduce: the regions of the given types
RECURSIVE CountRegions(_, _)
CountRegions(results, types) ==
  IF results = << >> THEN 0
  ELSE (IF Head(results).regionType \in types THEN 1 ELSE 0)
       + CountRegions(Tail(results), types)

IsUncovered(region) == region.regionType \in { "unchecked", "partial" }
RegionTypes == { "default", "checked", "partial", "unchecked" }

\* the percentage as a fraction num / den
convertTypedRegionsToCoverageResult(regions) ==
  LET unfilteredResults ==
        AddRegions([line |-> 1, column |-> startColumn, results |-> << >>],
                   regions).results
      totalInterestingRegionCount ==
        CountRegions(unfilteredResults, RegionTypes \ { "default" })
      checkedRegionCount == CountRegions(unfilteredResults, { "checked" })
      partialRegionCount == CountRegions(unfilteredResults, { "partial" })
  IN [percentage |->
        IF totalInterestingRegionCount = 0
          THEN [num |-> 100, den |-> 1]
          ELSE [num |-> (2 * checkedRegionCount + partialRegionCount) * 100,
                den |-> 2 * totalInterestingRegionCount],
      uncoveredRegions |-> SelectSeq(unfilteredResults, IsUncovered)]

\* percentage.toFixed(0): the nearest integer, the larger of two
toFixed0(q) == (2 * q.num + q.den) \div (2 * q.den)

\* new vscode.Diagnostic(new vscode.Range(...), ...)
Diagnostic(region) ==
  [range |-> [start |-> [line |-> region.line - 1,
                         character |-> region.start - 1],
              end |-> [line |-> region.line - 1,
                       character |-> region.end]],
   message |-> "Un-type checked code. Consider adding type annotations.",
   severity |-> "Warning",
   source |-> "Type Coverage"]

\* coverageResult.uncoveredRegions.forEach
Diagnostics(uncoveredRegions) ==
  [i \in 1..Len(uncoveredRegions) |-> Diagnostic(uncoveredRegions[i])]

ColorResults ==
  { NoColor,
    Colored(<< Region("checked", << "x" >>),
               Region("unchecked", << "x", "\n", "x" >>) >>),
    Colored(<< Region("partial", << "x" >>),
               Region("partial", << "x" >>),
               Region("default", << "\n" >>) >>) }

\* the checker as its fields
Checker ==
  [visible |-> visible, cache |-> cache, hhvmCoverDiag |-> hhvmCoverDiag,
   coverageStatus |-> coverageStatus]

\* Map.delete
MapDelete(map, key) == [k \in DOMAIN map \ { key } |-> map[k]]

\* run up to await hh_client.color: the checker after it, and whether the
\* call is suspended there (awaits) or has returned
RunToAwait(c, document, useCached) ==
  LET cached == document.fileName \in DOMAIN c.cache IN
  IF document.languageId # "hack"
    THEN [checker |-> c, awaits |-> FALSE]
  ELSE IF ~useCached /\ cached
    THEN [checker |-> [c EXCEPT !.cache = MapDelete(@, document.fileName)],
          awaits |-> TRUE]
  ELSE IF useCached /\ cached /\ c.visible
    THEN [checker |-> [c EXCEPT !.hhvmCoverDiag =
                         MapSet(@, document.fileName,
                                c.cache[document.fileName])],
          awaits |-> FALSE]
  ELSE [checker |-> c, awaits |-> TRUE]

\* RunFromAwait without the test of this.visible
RunFromAwait_AlwaysPublishes(c, fileName, colorResult) ==
  IF ~colorResult.ok
    THEN [c EXCEPT !.coverageStatus.shown = FALSE,
                   !.hhvmCoverDiag = << >>]
    ELSE LET coverageResult ==
               convertTypedRegionsToCoverageResult(colorResult.regions)
             diagnostics == Diagnostics(coverageResult.uncoveredRegions)
         IN [c EXCEPT
               !.coverageStatus =
                  [shown |-> TRUE,
                   text |-> << toFixed0(coverageResult.percentage) >>],
               !.cache = MapSet(@, fileName, diagnostics),
               !.hhvmCoverDiag = MapSet(@, fileName, diagnostics)]

\* run from the answer of hh_client.color to its end
RunFromAwait(c, fileName, colorResult) ==
  IF ~colorResult.ok
    THEN [c EXCEPT !.coverageStatus.shown = FALSE,
                   !.hhvmCoverDiag = << >>]
    ELSE LET coverageResult ==
               convertTypedRegionsToCoverageResult(colorResult.regions)
             diagnostics == Diagnostics(coverageResult.uncoveredRegions)
         IN [c EXCEPT
               !.coverageStatus =
                  [shown |-> TRUE,
                   text |-> << toFixed0(coverageResult.percentage) >>],
               !.cache = MapSet(@, fileName, diagnostics),
               !.hhvmCoverDiag =
                  IF c.visible THEN MapSet(@, fileName, diagnostics)
                  ELSE @]

\* the fields of the checker become those of c
Becomes(c) ==
  /\ visible' = c.visible
  /\ cache' = c.cache
  /\ hhvmCoverDiag' = c.hhvmCoverDiag
  /\ coverageStatus' = c.coverageStatus

\* the steps of this section leave the debug session alone
CoverageStep ==
  UNCHANGED << client, status, args, flags, cbPending, ghost, written,
               sent, last, request, shell, wireVars >>

\* a call of run(document, useCached) by the extension
Run(document, useCached) ==
  /\ calls < MaxCalls
  /\ calls' = calls + 1
  /\ LET r == RunToAwait(Checker, document, useCached) IN
     /\ Becomes(r.checker)
     /\ suspended' =
          IF r.awaits
            THEN Append(suspended,
                        [call |-> "run", fileName |-> document.fileName])
            ELSE suspended
     /\ step' = Step("run", document.fileName, ~r.awaits, NoColor)
  /\ UNCHANGED toggled
  /\ CoverageStep

\* a call of toggle(); document is vscode.window.activeTextEditor.document
Toggle(document) ==
  /\ calls < MaxCalls
  /\ calls' = calls + 1
  /\ IF visible
       THEN /\ Becomes([Checker EXCEPT !.hhvmCoverDiag = << >>,
                                       !.visible = FALSE])
            /\ suspended' = suspended
            /\ toggled' = toggled + 1
            /\ step' = Step("toggle", document.fileName, TRUE, NoColor)
       ELSE LET r == RunToAwait(Checker, document, TRUE) IN
            IF r.awaits
              THEN /\ Becomes(r.checker)
                   /\ suspended' =
                        Append(suspended,
                               [call |-> "toggle",
                                fileName |-> document.fileName])
                   /\ toggled' = toggled
                   /\ step' = Step("toggle", document.fileName, FALSE,
                                   NoColor)
              ELSE /\ Becomes([r.checker EXCEPT !.visible = TRUE])
                   /\ suspended' = suspended
                   /\ toggled' = toggled + 1
                   /\ step' = Step("toggle", document.fileName, TRUE,
                                   NoColor)
  /\ CoverageStep

\* the sequence without its i-th element
Without(seq, i) == SubSeq(seq, 1, i - 1) \o SubSeq(seq, i + 1, Len(seq))

\* hh_client.color of the i-th suspended call resolves to colorResult: run
\* goes on to its end, and so does the toggle that awaits it
Resume(i, colorResult) ==
  /\ i \in 1..Len(suspended)
  /\ LET task == suspended[i]
         c == RunFromAwait(Checker, task.fileName, colorResult)
     IN /\ IF task.call = "toggle"
             THEN /\ Becomes([c EXCEPT !.visible = TRUE])
                  /\ toggled' = toggled + 1
             ELSE /\ Becomes(c)
                  /\ toggled' = toggled
        /\ step' = Step(task.call, task.fileName, TRUE, colorResult)
  /\ suspended' = Without(suspended, i)
  /\ UNCHANGED calls
  /\ CoverageStep

NextCoverage ==
  \/ \E document \in Documents, useCached \in BOOLEAN :
       Run(document, useCached)
  \/ \E document \in Documents : Toggle(document)
  \/ \E i \in 1..MaxCalls, colorResult \in ColorResults :
       Resume(i, colorResult)

SpecCoverage == Init /\ [][NextCoverage]_vars

TypeOK ==
  /\ client \in 0..MaxAttach
  /\ \A s \in Socks :
       /\ status[s] \in
            { "unused", "connecting", "open", "destroyed", "closed" }
       /\ attachPending[s] \in 0..MaxPending
       /\ CbTotal(s) \in 0..MaxCallbacks
       /\ (s > client => status[s] = "unused")
  /\ DOMAIN breakPoints \subseteq Paths
  /\ Len(variableHandles) \in 0..MaxHandles
  /\ Len(sentCmds) \in 0..MaxSend
  /\ Len(handled) \in 0..MaxChunk
  /\ uncaught \in { "none", "CodecError", "UnknownCommandError" }
  /\ visible \in BOOLEAN
  /\ DOMAIN cache \subseteq { d.fileName : d \in Documents }
  /\ DOMAIN hhvmCoverDiag \subseteq { d.fileName : d \in Documents }
  /\ coverageStatus.shown \in BOOLEAN
  /\ Len(suspended) \in 0..calls
  /\ calls \in 0..MaxCalls
  /\ toggled \in 0..calls

(* ---- properties -------------------------------------------------------- *)

\* the last step was the data handler of closure s receiving cmd
Got(s, cmd) == last.sock = s /\ last.got = cmd

\* the write calls of the last step were exactly these commands, in order,
\* each to this.client
Wrote(cmds) ==
  written = [i \in 1..Len(cmds) |-> [to |-> client, cmd |-> cmds[i]]]

AttachCmd(a) ==
  CmdMachine("attach", << SandboxInfo(a.user, a.sandbox) >>, FALSE)

InitialBreak ==
  CmdBreak("update",
           << BreakPointInfo("Always", "KnownToBeValid", "RequestStarted") >>)

\* C1: when the data handler receives Interrupt(SessionStarted) while its
\* closure is not attached, it writes exactly one command, the attach
\* command for the user and sandbox of the closure's attach arguments, and
\* the closure is then in state Attaching.
C1_SessionStartedSendsAttach ==
  \A s \in Socks :
    (/\ Got(s, InInterrupt("SessionStarted"))
     /\ last.pre \in { "AwaitingSessionStart", "Attaching" })
    => /\ Wrote(<< AttachCmd(args[s]) >>)
       /\ State(s) = "Attaching"

\* the end-to-end scenario of the spec: user alice, sandbox dev
C1_Witness ==
  \E s \in Socks :
    /\ Got(s, InInterrupt("SessionStarted"))
    /\ last.pre = "AwaitingSessionStart"
    /\ args[s] = [user |-> "alice", sandbox |-> "dev"]
    /\ Wrote(<< CmdMachine("attach", << SandboxInfo("alice", "dev") >>,
                           FALSE) >>)
    /\ State(s) = "Attaching"

\* C2: no closure ever has more than one attach command unanswered.
C2_OneAttachOutstanding ==
  \A s \in Socks : attachPending[s] <= 1

\* C3: attached changes only from false to true, and only in a step that
\* receives Machine(succeed = true) while an attach command of the closure
\* is unanswered.
C3_AttachedOnlyOnAttachReply ==
  [][ \A s \in Socks :
        attached'[s] # attached[s]
        => /\ ~attached[s]
           /\ attached'[s]
           /\ last'.sock = s
           /\ last'.got = InMachine(TRUE)
           /\ attachPending[s] > 0 ]_vars

IsBreakOrContinue(c) == c.cmdType \in { "KindOfBreak", "KindOfContinue" }

\* C5 as stated: every Break and every Continue is written in a step that
\* receives an Interrupt or Machine(succeed = true).
C5_OnlyOnInterruptOrMachine ==
  \A i \in 1..Len(written) :
    IsBreakOrContinue(written[i].cmd)
    => \/ last.got.cmdType = "KindOfInterrupt"
       \/ last.got = InMachine(TRUE)

\* C5 as amended: every Break and every Continue is written in a step that
\* receives an Interrupt, Machine(succeed = true) or a Break command, and
\* in no other step.
C5_OnlyOnInterruptMachineOrBreak ==
  \A i \in 1..Len(written) :
    IsBreakOrContinue(written[i].cmd)
    => \/ last.got.cmdType = "KindOfInterrupt"
       \/ last.got = InMachine(TRUE)
       \/ last.got = InBreak

C5_Witness ==
  \E s \in Socks :
    /\ Got(s, InBreak)
    /\ Wrote(<< CmdContinue("", 1, FALSE) >>)

\* C6: Interrupt(RequestStarted) or Interrupt(BreakPointReached) received
\* in state Attached or Listening writes exactly one Step command and leaves
\* the closure in state Listening.
C6_InterruptSendsStep ==
  \A s \in Socks :
    \A i \in { "RequestStarted", "BreakPointReached" } :
      (/\ Got(s, InInterrupt(i))
       /\ last.pre \in { "Attached", "Listening" })
      => /\ Wrote(<< CmdStep("", 1, FALSE) >>)
         /\ State(s) = "Listening"

C6_Witness ==
  \E s \in Socks :
    /\ Got(s, InInterrupt("RequestStarted"))
    /\ last.pre = "Attached"
    /\ Wrote(<< CmdStep("", 1, FALSE) >>)
    /\ State(s) = "Listening"

\* C7: a Break reply received in state Listening writes exactly one
\* Continue command and leaves the closure in state Listening.
C7_BreakSendsContinue ==
  \A s \in Socks :
    (Got(s, InBreak) /\ last.pre = "Listening")
    => /\ Wrote(<< CmdContinue("", 1, FALSE) >>)
       /\ State(s) = "Listening"

C7_Witness ==
  \E s \in Socks :
    /\ Got(s, InBreak)
    /\ last.pre = "Listening"
    /\ Wrote(<< CmdContinue("", 1, FALSE) >>)
    /\ State(s) = "Listening"

\* the (state, command) pairs that C8 lists as having no row in the
\* transition table, for closure s in the state before the step
NoRow(s, cmd) ==
  \/ /\ cmd \in { InInterrupt("RequestStarted"),
                  InInterrupt("BreakPointReached") }
     /\ ~attached[s]
  \/ /\ cmd = InBreak
     /\ State(s) # "Listening"
  \/ /\ cmd = InMachine(TRUE)
     /\ attachPending[s] = 0
  \/ /\ cmd = InInterrupt("SessionStarted")
     /\ attached[s]
  \/ cmd = InSignal("SignalBreak")

\* C8: a command received in a state that has no row for it writes nothing
\* and leaves the state and the three flags of the closure unchanged.
C8_NoRowNoEffect ==
  [][ \A s \in Socks :
        (last'.sock = s /\ NoRow(s, last'.got))
        => /\ written' = << >>
           /\ State(s)' = State(s)
           /\ attached'[s] = attached[s]
           /\ interrupted'[s] = interrupted[s]
           /\ needInterrupt'[s] = needInterrupt[s] ]_vars

\* C9: a pause request of the shell made while the connection is open sets
\* needInterrupt of that connection; Signal(SignalNone) received while needInterrupt is set is
\* written back as SignalBreak and clears needInterrupt; received while it
\* is clear, it is written back as it is.
C9_PauseLatch ==
  [][ /\ (/\ sent' = << Response("pause") >>
          /\ client # 0
          /\ status[client] = "open")
         => needInterrupt'[client]
      /\ \A s \in Socks :
           (last'.sock = s /\ last'.got = InSignal("SignalNone"))
           => IF needInterrupt[s]
                THEN /\ Wrote(<< InSignal("SignalBreak") >>)'
                     /\ ~needInterrupt'[s]
                ELSE /\ Wrote(<< InSignal("SignalNone") >>)'
                     /\ ~needInterrupt'[s] ]_vars

\* C10: the error, timeout and close handlers of a socket emit a terminated
\* event and leave the socket released, its closure Disconnected.
C10_SocketEventTerminates ==
  [][ \A s \in Socks :
        (Close(s) \/ Timeout(s) \/ Error(s))
        => /\ \E i \in 1..Len(sent') : sent'[i] = Event("terminated")
           /\ State(s)' = "Disconnected" ]_vars

\* C11: after the data handler has received Interrupt(SessionEnded) in
\* state AwaitingSessionStart, the connection is torn down: the closure is
\* Disconnected.
C11_SessionEndedDisconnects ==
  \A s \in Socks :
    (Got(s, InInterrupt("SessionEnded")) /\ last.pre = "AwaitingSessionStart")
    => State(s) = "Disconnected"

\* C13: at most one outbound command is in flight: while the attach command
\* of a closure is unanswered, its data handler writes nothing when it
\* receives Interrupt(RequestStarted) or Interrupt(BreakPointReached).
C13_OneCommandInFlight ==
  \A s \in Socks :
    (/\ last.sock = s
     /\ last.pre = "Attaching"
     /\ last.got \in { InInterrupt("RequestStarted"),
                       InInterrupt("BreakPointReached") })
    => written = << >>

\* the sockets whose handlers can still run
LiveSockets == { s \in Socks : status[s] \in { "connecting", "open" } }

\* C14: a session has one connection: at most one socket with live handlers
\* exists, and every command the data handler writes goes to the socket the
\* inbound command arrived on.
C14_OneConnection ==
  /\ Cardinality(LiveSockets) <= 1
  /\ \A i \in 1..Len(written) : written[i].to = last.sock

\* C15: no command is written to a socket that has been destroyed or whose
\* close event has been delivered.
C15_NoWriteAfterClose ==
  \A i \in 1..Len(written) :
    status[written[i].to] \notin { "destroyed", "closed" }

\* the lines of a list of breakpoints, in order
LinesOf(bps) == [i \in 1..Len(bps) |-> bps[i].line]

\* the last step was a setBreakpoints request whose file could be read
SetBreakpointsDone ==
  /\ request.command = "setBreakpoints"
  /\ sent[1].success

\* C17: after setBreakpoints(file, descriptors) the entry of the file in
\* the breakpoint table holds exactly the supplied descriptors.
C17_TableHoldsSupplied ==
  SetBreakpointsDone
  => /\ request.arguments.path \in DOMAIN breakPoints
     /\ LinesOf(breakPoints[request.arguments.path])
          = LinesOf(request.arguments.breakpoints)

\* C18: the response to setBreakpoints lists the supplied descriptors as
\* they are: same length, same lines, same order.
C18_ResponseEchoesSupplied ==
  SetBreakpointsDone
  => LinesOf(sent[1].body.breakpoints)
       = LinesOf(request.arguments.breakpoints)

\* the requests HhvmDebugSession handles
UpwardRequests ==
  { "initialize", "attach", "launch", "setBreakpoints", "threads",
    "stackTrace", "scopes", "variables", "continue", "next",
    "reverseContinue", "stepBack", "evaluate" }

\* the responses among the messages the last step sent to the shell
ResponseCount ==
  Cardinality({ i \in 1..Len(sent) : sent[i].type = "response" })

\* C20: every request the session handles sends exactly one response.
C20_OneResponsePerRequest ==
  request.command \in UpwardRequests => ResponseCount = 1

\* C12: a record that cannot be decoded, or whose tag the factory does not
\* recognize, is dropped: no error escapes the data handler.
C12_NoErrorEscapes == uncaught = "none"

\* C16: however the bytes of the records are split into data events, once
\* all bytes are read the handler has handled the commands the server
\* wrote, each once and in order.
C16_ChunkingIsInvisible ==
  (/\ wire = << >>
   /\ \A i \in 1..Len(sentCmds) : sentCmds[i] \in WireCmds)
  => /\ uncaught = "none"
     /\ handled = sentCmds

C21_CallbackKeepsLaterInterrupt ==
  [][ \A s, t \in Socks :
        (/\ WriteCallback(s, t)
         /\ last.sock = s
         /\ last.got.cmdType = "KindOfInterrupt"
         /\ written = << >>)
        => interrupted'[s] ]_vars

\* C22: continueRequest and nextRequest, called while the socket of
\* this.client is open, emit no terminated event and write nothing to the
\* socket.
C22_NoTerminatedWhileOpen ==
  (/\ request.command \in { "continue", "next" }
   /\ client # 0
   /\ status[client] = "open")
  => /\ \A i \in 1..Len(sent) : sent[i] # Event("terminated")
     /\ written = << >>

\* the diagnostics of the uncovered regions of a colour answer
UncoveredDiagnostics(colorResult) ==
  Diagnostics(
    convertTypedRegionsToCoverageResult(colorResult.regions).uncoveredRegions)

\* C23: when a toggle() called with visible = false completes after a
\* colour query that succeeded, visible is true and the diagnostic
\* collection holds the uncovered-region diagnostics of the document.
C23_ToggleOnPublishes ==
  (/\ step.call = "toggle"
   /\ step.completed
   /\ step.color.ok)
  => /\ visible
     /\ step.fileName \in DOMAIN hhvmCoverDiag
     /\ hhvmCoverDiag[step.fileName] = UncoveredDiagnostics(step.color)

\* the diagnostic collection holds no diagnostic
NoCoverageDiagnostics ==
  \A f \in DOMAIN hhvmCoverDiag : hhvmCoverDiag[f] = << >>

\* C24: whenever visible is false, the diagnostic collection holds no
\* coverage diagnostics, however calls of run and toggle interleave.
C24_HiddenMeansEmpty == ~visible => NoCoverageDiagnostics

\* a run that found uncovered regions has completed after two toggles, the
\* second of which switched the highlighting off
C24_Witness ==
  /\ ~visible
  /\ toggled = 2
  /\ step.call = "run"
  /\ step.completed
  /\ step.color.ok
  /\ cache[step.fileName] # << >>
  /\ NoCoverageDiagnostics

\* C25: after two completed calls of toggle(), visible has the value it had
\* before the first, which is false.
C25_TwoTogglesRestore == toggled = 2 => ~visible

====
